---- MODULE Spec2Model ----
(***************************************************************************)
(* Model of serve_videos.py: the sanitized-name registry of a small Flask  *)
(* video server (set_folder / reset / serve_by_key / playlist_m3u / root), *)
(* run by a threaded WSGI server (app.run(..., threaded=True)).            *)
(*                                                                         *)
(* Strings are sequences of Unicode code points (naturals), so that the    *)
(* string functions of the program (str.replace, str.split, " ".join,      *)
(* Path.suffix, str.lower, urllib.parse.quote / unquote, sorted) are       *)
(* computed as the program computes them.                                  *)
(***************************************************************************)
EXTENDS Naturals, Sequences, FiniteSets, TLC

(***************************************************************************)
(* State: lines 115-117, the file system, and the requests in flight       *)
(***************************************************************************)
VARIABLES
  VIDEO_DIR,      \* app.config['VIDEO_DIR']: None or the resolved directory
  SANITIZED_MAP,  \* app.config['SANITIZED_MAP']: <<actual, key>> bindings
  HOST_IP,        \* app.config['HOST_IP']
  disk,           \* the entries of each directory
  req,            \* per thread: the request it serves, its position, its locals
  mapOwner        \* history: the directory SANITIZED_MAP was built from

vars == <<VIDEO_DIR, SANITIZED_MAP, HOST_IP, disk, req, mapOwner>>

registry == <<VIDEO_DIR, SANITIZED_MAP, HOST_IP>>

(***************************************************************************)
(* Characters                                                              *)
(***************************************************************************)
SPACE == 32
PERCENT == 37
LPAREN == 40
RPAREN == 41
DOT == 46
REPLACEMENT == 65533

\* str.split() with no argument splits on runs of characters for which
\* str.isspace() holds.
Whitespace ==
  {9, 10, 11, 12, 13, 28, 29, 30, 31, 32, 133, 160, 5760, 8232, 8233, 8239,
   8287, 12288} \cup (8192..8202)

\* urllib.parse: _ALWAYS_SAFE = letters, digits and "_.-~"; quote(s, safe='')
\* leaves exactly these unescaped.
AlwaysSafe == (65..90) \cup (97..122) \cup (48..57) \cup {95, 46, 45, 126}

HexDigits == (48..57) \cup (65..70) \cup (97..102)

HexVal(c) ==
  IF c \in 48..57 THEN c - 48
  ELSE IF c \in 65..70 THEN c - 55
  ELSE c - 87

\* "0123456789ABCDEF"[n], the digit format(byte, "02X") writes
HexChar(n) == IF n < 10 THEN 48 + n ELSE 55 + n

\* str.lower() on the ASCII range (the extension allow-list is ASCII)
LowerChar(c) == IF c \in 65..90 THEN c + 32 ELSE c

Lower(s) == [i \in 1..Len(s) |-> LowerChar(s[i])]

(***************************************************************************)
(* Generic sequence helpers                                                *)
(***************************************************************************)
RECURSIVE SeqFilter(_, _)
\* the subsequence of s of the elements not in the set drop
SeqFilter(s, drop) ==
  IF s = <<>> THEN <<>>
  ELSE IF Head(s) \in drop THEN SeqFilter(Tail(s), drop)
  ELSE <<Head(s)>> \o SeqFilter(Tail(s), drop)

Range(s) == {s[i] : i \in 1..Len(s)}

\* lexicographic order on strings by code point (str.__lt__)
RECURSIVE StrLess(_, _)
StrLess(a, b) ==
  IF b = <<>> THEN FALSE
  ELSE IF a = <<>> THEN TRUE
  ELSE IF Head(a) < Head(b) THEN TRUE
  ELSE IF Head(a) > Head(b) THEN FALSE
  ELSE StrLess(Tail(a), Tail(b))

RECURSIVE SortedSeq(_)
\* sorted(S): the strings of the set S in ascending order
SortedSeq(S) ==
  IF S = {} THEN <<>>
  ELSE LET m == CHOOSE x \in S : \A y \in S \ {x} : StrLess(x, y)
       IN <<m>> \o SortedSeq(S \ {m})

(***************************************************************************)
(* sanitize_visible                                                        *)
(***************************************************************************)
RECURSIVE SplitWordsOnSpace(_, _)
\* SplitWords splitting on the space character only
SplitWordsOnSpace(s, cur) ==
  IF s = <<>> THEN (IF cur = <<>> THEN <<>> ELSE <<cur>>)
  ELSE IF Head(s) = SPACE
       THEN (IF cur = <<>> THEN <<>> ELSE <<cur>>)
              \o SplitWordsOnSpace(Tail(s), <<>>)
       ELSE SplitWordsOnSpace(Tail(s), Append(cur, Head(s)))

RECURSIVE SplitWords(_, _)
\* str.split(): the maximal runs of non-whitespace characters of s, in
\* order; cur is the word being read.
SplitWords(s, cur) ==
  IF s = <<>> THEN (IF cur = <<>> THEN <<>> ELSE <<cur>>)
  ELSE IF Head(s) \in Whitespace
       THEN (IF cur = <<>> THEN <<>> ELSE <<cur>>) \o SplitWords(Tail(s), <<>>)
       ELSE SplitWords(Tail(s), Append(cur, Head(s)))

RECURSIVE JoinWords(_)
\* " ".join(words)
JoinWords(words) ==
  IF words = <<>> THEN <<>>
  ELSE IF Len(words) = 1 THEN words[1]
  ELSE words[1] \o <<SPACE>> \o JoinWords(Tail(words))

\* sanitize_visible collapsing the whitespace before it removes the
\* parentheses
sanitize_collapse_first(name) ==
  SeqFilter(SeqFilter(JoinWords(SplitWords(name, <<>>)), {LPAREN}), {RPAREN})

sanitize_visible(name) ==
  LET s == SeqFilter(SeqFilter(name, {LPAREN}), {RPAREN})
  IN JoinWords(SplitWords(s, <<>>))

(***************************************************************************)
(* is_video_file                                                           *)
(***************************************************************************)
\* '.mp4', '.mkv', '.avi', '.mov', '.flv', '.wmv', '.webm', '.m4v'
VIDEO_EXTS ==
  { <<46, 109, 112, 52>>, <<46, 109, 107, 118>>, <<46, 97, 118, 105>>,
    <<46, 109, 111, 118>>, <<46, 102, 108, 118>>, <<46, 119, 109, 118>>,
    <<46, 119, 101, 98, 109>>, <<46, 109, 52, 118>> }

\* the largest index of a dot in name, 0 when there is none (str.rfind + 1)
LastDot(name) ==
  LET dots == {i \in 1..Len(name) : name[i] = DOT}
  IN IF dots = {} THEN 0 ELSE CHOOSE i \in dots : \A j \in dots : j <= i

\* pathlib's PurePath.suffix: name[i:] for the last dot i, when that dot is
\* neither the first nor the last character of the name; '' otherwise.
PathSuffix(name) ==
  LET i == LastDot(name)
  IN IF 1 < i /\ i < Len(name) THEN SubSeq(name, i, Len(name)) ELSE <<>>

is_video_file(name) == Lower(PathSuffix(name)) \in VIDEO_EXTS

(***************************************************************************)
(* urllib.parse.quote(s, safe='') and urllib.parse.unquote(s)              *)
(***************************************************************************)
\* str.encode('utf-8') of one code point
Utf8Encode(c) ==
  IF c < 128 THEN <<c>>
  ELSE IF c < 2048 THEN <<192 + (c \div 64), 128 + (c % 64)>>
  ELSE IF c < 65536
    THEN <<224 + (c \div 4096), 128 + ((c \div 64) % 64), 128 + (c % 64)>>
  ELSE <<240 + (c \div 262144), 128 + ((c \div 4096) % 64),
         128 + ((c \div 64) % 64), 128 + (c % 64)>>

PercentByte(b) == <<PERCENT, HexChar(b \div 16), HexChar(b % 16)>>

RECURSIVE PercentBytes(_)
PercentBytes(bs) ==
  IF bs = <<>> THEN <<>> ELSE PercentByte(Head(bs)) \o PercentBytes(Tail(bs))

RECURSIVE Quote(_)
Quote(s) ==
  IF s = <<>> THEN <<>>
  ELSE (IF Head(s) \in AlwaysSafe THEN <<Head(s)>>
        ELSE PercentBytes(Utf8Encode(Head(s)))) \o Quote(Tail(s))

IsCont(b) == b \in 128..191

\* the second bytes a lead byte b of a multi-byte sequence admits
SecondBytes(b) ==
  IF b = 224 THEN 160..191
  ELSE IF b = 237 THEN 128..159
  ELSE IF b = 240 THEN 144..191
  ELSE IF b = 244 THEN 128..143
  ELSE 128..191

\* the number of bytes of the sequence the lead byte b starts, 0 for a
\* byte that starts none
SeqLen(b) ==
  IF b \in 194..223 THEN 2
  ELSE IF b \in 224..239 THEN 3
  ELSE IF b \in 240..244 THEN 4
  ELSE 0

\* how many of the bytes after the lead byte continue its sequence
RECURSIVE ContRun(_, _, _)
ContRun(bs, i, n) ==
  IF i > n \/ i > Len(bs) THEN 0
  ELSE IF (i = 2 /\ bs[2] \in SecondBytes(bs[1])) \/ (i > 2 /\ IsCont(bs[i]))
  THEN 1 + ContRun(bs, i + 1, n)
  ELSE 0

\* the code point of a well-formed sequence of n bytes
CodePoint(bs, n) ==
  IF n = 2 THEN (bs[1] - 192) * 64 + (bs[2] - 128)
  ELSE IF n = 3 THEN (bs[1] - 224) * 4096 + (bs[2] - 128) * 64 + (bs[3] - 128)
  ELSE (bs[1] - 240) * 262144 + (bs[2] - 128) * 4096 + (bs[3] - 128) * 64
       + (bs[4] - 128)

RECURSIVE Utf8Decode(_)
\* bytes.decode('utf-8', 'replace') of a sequence of items: an item below
\* 256 is a byte, an item 1000000 + c is the non-ASCII character c that
\* unquote passes through untouched (it splits its input into ASCII runs
\* and decodes each run on its own).  A maximal ill-formed prefix of a
\* sequence becomes one U+FFFD.
Utf8Decode(bs) ==
  IF bs = <<>> THEN <<>>
  ELSE LET b == Head(bs)
           n == SeqLen(b)
           run == ContRun(bs, 2, n)
       IN
    IF b >= 1000000 THEN <<b - 1000000>> \o Utf8Decode(Tail(bs))
    ELSE IF b < 128 THEN <<b>> \o Utf8Decode(Tail(bs))
    ELSE IF n > 0 /\ run = n - 1
      THEN <<CodePoint(bs, n)>> \o Utf8Decode(SubSeq(bs, n + 1, Len(bs)))
    ELSE <<REPLACEMENT>> \o Utf8Decode(SubSeq(bs, run + 2, Len(bs)))

RECURSIVE UnquoteItems(_)
\* unquote_to_bytes: "%" followed by two hex digits is one byte, any other
\* character stands for itself.
UnquoteItems(s) ==
  IF s = <<>> THEN <<>>
  ELSE IF Head(s) = PERCENT /\ Len(s) >= 3 /\ s[2] \in HexDigits /\ s[3] \in HexDigits
    THEN <<16 * HexVal(s[2]) + HexVal(s[3])>> \o UnquoteItems(SubSeq(s, 4, Len(s)))
  ELSE IF Head(s) < 128 THEN <<Head(s)>> \o UnquoteItems(Tail(s))
  ELSE <<1000000 + Head(s)>> \o UnquoteItems(Tail(s))

Unquote(s) == Utf8Decode(UnquoteItems(s))

(***************************************************************************)
(* Key assignment of set_folder                                            *)
(***************************************************************************)
RECURSIVE DecimalStr(_)
\* str(i) for i >= 0
DecimalStr(i) ==
  IF i < 10 THEN <<48 + i>> ELSE DecimalStr(i \div 10) \o <<48 + (i % 10)>>

\* Candidate with the counter written one too low
CandidateOffByOne(sanitized, i) ==
  IF i = 1 THEN sanitized ELSE sanitized \o <<SPACE>> \o DecimalStr(i - 1)

\* the candidate key tried with counter i: the sanitized name itself for
\* i = 1, f"{sanitized} {i}" afterwards
Candidate(sanitized, i) ==
  IF i = 1 THEN sanitized ELSE sanitized \o <<SPACE>> \o DecimalStr(i)

RECURSIVE CollisionIndex(_, _, _)
\* the while loop of set_folder (lines 180-184): the counter i at which the
\* loop exits, started at i with the keys assigned so far in taken
CollisionIndex(sanitized, taken, i) ==
  IF Candidate(sanitized, i) \in taken
  THEN CollisionIndex(sanitized, taken, i + 1)
  ELSE i

\* the values of a mapping kept as a sequence of <<actual, key>> bindings
\* in insertion order (a Python dict)
MapValues(m) == {m[i][2] : i \in 1..Len(m)}

MapKeys(m) == {m[i][1] : i \in 1..Len(m)}

\* dict.get(actual, default)
MapGet(m, actual, default) ==
  IF actual \in MapKeys(m)
  THEN (CHOOSE b \in Range(m) : b[1] = actual)[2]
  ELSE default

\* AssignKey without the uniqueness loop of lines 181-184
AssignKeyUnchecked(m, actual) ==
  Append(m, <<actual, sanitize_visible(actual)>>)

\* one iteration of the for loop of set_folder on the accepted file actual
AssignKey(m, actual) ==
  LET sanitized == sanitize_visible(actual)
      i == CollisionIndex(sanitized, MapValues(m), 1)
  IN Append(m, <<actual, Candidate(sanitized, i)>>)

\* a directory listing is a set of entries [name, kind], kind "file" for a
\* regular file; names are unique within a listing
EntryNames(entries) == {e.name : e \in entries}

IsRegularFile(entries, name) ==
  \E e \in entries : e.name = name /\ e.kind = "file"

RECURSIVE BuildFrom(_, _, _)
\* the for loop of set_folder over the sorted names, from the mapping m
BuildFrom(names, entries, m) ==
  IF names = <<>> THEN m
  ELSE LET p == Head(names) IN
    BuildFrom(Tail(names), entries,
              IF IsRegularFile(entries, p) /\ is_video_file(p)
              THEN AssignKey(m, p) ELSE m)

\* BuildSanitizedMap continuing the published mapping instead of starting
\* from an empty one
BuildSanitizedMapStale(entries) ==
  BuildFrom(SortedSeq(EntryNames(entries)), entries, SANITIZED_MAP)

\* lines 173-185: sanitized_map = {} ... for p in sorted(folder_path.iterdir())
BuildSanitizedMap(entries) ==
  BuildFrom(SortedSeq(EntryNames(entries)), entries, <<>>)

(***************************************************************************)
(* The file system and the network, as the program sees them               *)
(***************************************************************************)
\* the most entries a directory of the model holds
MaxFiles == 3

\* the most tokens in the stem of a generated file name
MaxStemLen == 1

\* the request threads of the threaded server (app.run(threaded=True)):
\* two, the parties of every race between two requests
Threads == {1, 2}

\* None of Python
None == "None"

Dirs == {"/d1", "/d2"}

\* "/link" is a symbolic link to the directory "/d1", "/f" a regular file;
\* every other path does not exist
LinkTarget(p) == IF p = "/link" THEN "/d1" ELSE p

PathExists(p) == LinkTarget(p) \in Dirs \cup {"/f"}

PathIsDir(p) == LinkTarget(p) \in Dirs

\* Path.resolve() of an absolute path: symbolic links followed
PathResolve(p) == LinkTarget(p)

\* get_local_ip(): the LAN address, or the loopback address when the
\* lookup fails
LocalIPs == {"192.168.1.5", "127.0.0.1"}

PORT == 8000

\* str.strip() of a form value read as a sequence of tokens, " " a run of
\* blanks and every other token a run of non-blank characters
RECURSIVE StripLeft(_)
StripLeft(s) ==
  IF s # <<>> /\ Head(s) = " " THEN StripLeft(Tail(s)) ELSE s

RECURSIVE StripRight(_)
StripRight(s) ==
  IF s # <<>> /\ s[Len(s)] = " " THEN StripRight(SubSeq(s, 1, Len(s) - 1)) ELSE s

Strip(s) == StripRight(StripLeft(s))

\* "a(.mkv" and "a.mkv": two names with the sanitized base "a.mkv"
NameAParen == <<97, 40, 46, 109, 107, 118>>
NameA == <<97, 46, 109, 107, 118>>
\* "a%20.MP4" and "a .MP4": the first, percent-decoded, is the second
NamePct == <<97, 37, 50, 48, 46, 77, 80, 52>>
NameASpace == <<97, 32, 46, 77, 80, 52>>
\* "b.txt" (no video) and "c.mkv" (the name of a subdirectory)
NameTxt == <<98, 46, 116, 120, 116>>
NameSub == <<99, 46, 109, 107, 118>>
\* "missing.mp4": never on disk
MissingKey == <<109, 105, 115, 115, 105, 110, 103, 46, 109, 112, 52>>

File(n) == [name |-> n, kind |-> "file"]
SubDir(n) == [name |-> n, kind |-> "dir"]

(***************************************************************************)
(* Initial state and the frame of a handler                                *)
(***************************************************************************)
Idle == [op |-> "idle", pc |-> "idle"]

\* lines 115-117, and a file system the server is started on
InitRegistry ==
  /\ VIDEO_DIR = None
  /\ SANITIZED_MAP = <<>>
  /\ HOST_IP = None
  /\ mapOwner = None
  /\ req = [t \in Threads |-> Idle]

Init ==
  /\ InitRegistry
  /\ disk = [d \in Dirs |->
               IF d = "/d1" THEN {File(NameAParen), File(NameA), File(NameTxt)}
               ELSE {File(NamePct), SubDir(NameSub)}]

\* the thread t moves to position pc with its locals changed as in upd
Goto(t, r) == req' = [req EXCEPT ![t] = r]

At(t, op, pc) == req[t].op = op /\ req[t].pc = pc

\* the handler returns: its response is kept until the thread is reused
Respond(t, resp) ==
  req' = [req EXCEPT ![t] = [op |-> req[t].op, pc |-> "done", resp |-> resp]]

\* the response went out and the thread waits for its next request
Return(t) ==
  /\ req[t].pc = "done"
  /\ Goto(t, Idle)
  /\ UNCHANGED <<VIDEO_DIR, SANITIZED_MAP, HOST_IP, disk, mapOwner>>

(***************************************************************************)
(* POST /set_folder                                                        *)
(***************************************************************************)
FormInputs ==
  { <<>>, <<" ">>, <<"/d1">>, <<" ", "/d2", " ">>, <<"/link">>, <<"/nope">>, <<"/f">> }

CallSetFolder(t, forms) ==
  /\ req[t].pc = "idle"
  /\ \E form \in forms :
       Goto(t, [op |-> "set_folder", pc |-> "scan", form |-> form])
  /\ UNCHANGED <<VIDEO_DIR, SANITIZED_MAP, HOST_IP, disk, mapOwner>>

\* lines 164 and 168: the path is refused
FolderRefused(folder) ==
  \/ folder = <<>>
  \/ ~ PathExists(folder[1])
  \/ ~ PathIsDir(folder[1])

\* SetFolderScan dropping the loaded folder when it refuses a path
SetFolderScanResetting(t) ==
  /\ At(t, "set_folder", "scan")
  /\ LET folder == Strip(req[t].form) IN
       IF FolderRefused(folder)
       THEN /\ Respond(t, [status |-> 302, flash |-> "Folder path is empty."])
            /\ VIDEO_DIR' = None
            /\ SANITIZED_MAP' = <<>>
            /\ UNCHANGED <<HOST_IP, disk, mapOwner>>
       ELSE /\ Goto(t, [op |-> "set_folder", pc |-> "write_dir",
                        form |-> req[t].form,
                        folder_path |-> folder[1],
                        scanned |-> disk[PathResolve(folder[1])],
                        sanitized_map |->
                          BuildSanitizedMap(disk[PathResolve(folder[1])])])
            /\ UNCHANGED <<VIDEO_DIR, SANITIZED_MAP, HOST_IP, disk, mapOwner>>

\* lines 163-185: validation, and the scan that builds the local
\* sanitized_map
SetFolderScan(t) ==
  /\ At(t, "set_folder", "scan")
  /\ LET folder == Strip(req[t].form) IN
       IF folder = <<>>
       THEN Respond(t, [status |-> 302, flash |-> "Folder path is empty."])
       ELSE IF FolderRefused(folder)
       THEN Respond(t, [status |-> 302,
                        flash |-> "Folder does not exist or is not a directory."])
       ELSE Goto(t, [op |-> "set_folder", pc |-> "write_dir",
                     form |-> req[t].form,
                     folder_path |-> folder[1],
                     scanned |-> disk[PathResolve(folder[1])],
                     sanitized_map |->
                       BuildSanitizedMap(disk[PathResolve(folder[1])])])
  /\ UNCHANGED <<VIDEO_DIR, SANITIZED_MAP, HOST_IP, disk, mapOwner>>

\* line 187
SetFolderWriteDir(t) ==
  /\ At(t, "set_folder", "write_dir")
  /\ VIDEO_DIR' = PathResolve(req[t].folder_path)
  /\ Goto(t, [req[t] EXCEPT !.pc = "write_map"])
  /\ UNCHANGED <<SANITIZED_MAP, HOST_IP, disk, mapOwner>>

\* line 188
SetFolderWriteMap(t) ==
  /\ At(t, "set_folder", "write_map")
  /\ SANITIZED_MAP' = req[t].sanitized_map
  /\ mapOwner' = PathResolve(req[t].folder_path)
  /\ Goto(t, [req[t] EXCEPT !.pc = "write_ip"])
  /\ UNCHANGED <<VIDEO_DIR, HOST_IP, disk>>

\* lines 189-190
SetFolderWriteIp(t) ==
  /\ At(t, "set_folder", "write_ip")
  /\ \E ip \in LocalIPs : HOST_IP' = ip
  /\ Respond(t, [status |-> 302, flash |-> "",
                 loaded |-> PathResolve(req[t].folder_path),
                 scanned |-> req[t].scanned,
                 built |-> req[t].sanitized_map])
  /\ UNCHANGED <<VIDEO_DIR, SANITIZED_MAP, disk, mapOwner>>

(***************************************************************************)
(* GET /reset                                                              *)
(***************************************************************************)
CallReset(t) ==
  /\ req[t].pc = "idle"
  /\ Goto(t, [op |-> "reset", pc |-> "clear_dir"])
  /\ UNCHANGED <<VIDEO_DIR, SANITIZED_MAP, HOST_IP, disk, mapOwner>>

\* line 194
ResetDir(t) ==
  /\ At(t, "reset", "clear_dir")
  /\ VIDEO_DIR' = None
  /\ Goto(t, [req[t] EXCEPT !.pc = "clear_map"])
  /\ UNCHANGED <<SANITIZED_MAP, HOST_IP, disk, mapOwner>>

\* lines 195-196
ResetMap(t) ==
  /\ At(t, "reset", "clear_map")
  /\ SANITIZED_MAP' = <<>>
  /\ mapOwner' = None
  /\ Respond(t, [status |-> 302])
  /\ UNCHANGED <<VIDEO_DIR, HOST_IP, disk>>

(***************************************************************************)
(* GET /files/<path:key>                                                   *)
(***************************************************************************)
\* the keys a client may ask for: the keys a listing or a playlist of some
\* directory shows, the names on disk, and a name that is nowhere
RequestKeys ==
  UNION {MapValues(BuildSanitizedMap(disk[d])) : d \in Dirs}
    \cup UNION {EntryNames(disk[d]) : d \in Dirs}
    \cup MapValues(SANITIZED_MAP)
    \cup {MissingKey}

\* the requests that only read the registry
ReaderOps == {"serve", "playlist", "root"}

\* The clients of the model keep at most one reading request in flight,
\* beside any request to /set_folder or /reset: every race the program has
\* is between a request that writes the registry and another request.
NoOtherReader(t) == \A u \in Threads \ {t} : req[u].op \notin ReaderOps

\* key is the path segment as the WSGI server hands it over, that is, the
\* segment of the URL percent-decoded once
CallServe(t, keys) ==
  /\ req[t].pc = "idle"
  /\ NoOtherReader(t)
  /\ \E key \in keys :
       Goto(t, [op |-> "serve", pc |-> "open", key |-> key])
  /\ UNCHANGED <<VIDEO_DIR, SANITIZED_MAP, HOST_IP, disk, mapOwner>>

\* lines 202-203: Path(None) raises TypeError, which Flask answers with 500
ServeOpen(t) ==
  /\ At(t, "serve", "open")
  /\ IF VIDEO_DIR = None
     THEN Respond(t, [status |-> 500, key |-> req[t].key])
     ELSE Goto(t, [op |-> "serve", pc |-> "lookup", key |-> req[t].key,
                   decoded |-> Unquote(req[t].key), folder |-> VIDEO_DIR])
  /\ UNCHANGED <<VIDEO_DIR, SANITIZED_MAP, HOST_IP, disk, mapOwner>>

\* lines 205-209: the first binding whose key equals decoded, "" for none
LookupKey(m, decoded) ==
  LET hits == {i \in 1..Len(m) : m[i][2] = decoded}
  IN IF hits = {} THEN <<>>
     ELSE m[CHOOSE i \in hits : \A j \in hits : i <= j][1]

\* FallbackName looking at the video files only
FallbackNameOfVideos(entries, decoded) ==
  IF IsRegularFile(entries, decoded) /\ is_video_file(decoded)
  THEN decoded ELSE <<>>

\* lines 211-215: an entry of the live directory named decoded
FallbackName(entries, decoded) ==
  IF decoded \in EntryNames(entries) THEN decoded ELSE <<>>

\* lines 205-209
ServeLookup(t) ==
  /\ At(t, "serve", "lookup")
  /\ Goto(t, [req[t] EXCEPT !.pc = "fallback"] @@
             [found |-> LookupKey(SANITIZED_MAP, req[t].decoded),
              usedMap |-> SANITIZED_MAP, usedOwner |-> mapOwner])
  /\ UNCHANGED <<VIDEO_DIR, SANITIZED_MAP, HOST_IP, disk, mapOwner>>

\* ServeFallback remembering the name it found as a new binding
ServeFallbackCaching(t) ==
  /\ At(t, "serve", "fallback")
  /\ LET hit == IF req[t].found = <<>>
                THEN FallbackName(disk[req[t].folder], req[t].decoded)
                ELSE <<>>
     IN /\ Goto(t, [req[t] EXCEPT
                      !.pc = "send",
                      !.found = IF req[t].found = <<>> THEN hit ELSE req[t].found])
        /\ SANITIZED_MAP' = IF hit = <<>> THEN SANITIZED_MAP
                            ELSE Append(SANITIZED_MAP, <<hit, hit>>)
  /\ UNCHANGED <<VIDEO_DIR, HOST_IP, disk, mapOwner>>

\* lines 210-215
ServeFallback(t) ==
  /\ At(t, "serve", "fallback")
  /\ Goto(t, [req[t] EXCEPT
                !.pc = "send",
                !.found = IF req[t].found = <<>>
                          THEN FallbackName(disk[req[t].folder], req[t].decoded)
                          ELSE req[t].found])
  /\ UNCHANGED <<VIDEO_DIR, SANITIZED_MAP, HOST_IP, disk, mapOwner>>

\* send_from_directory(directory, found): TypeError for directory None, 404
\* when directory/found is no regular file, else the file is streamed
SendFromDirectory(directory, found) ==
  IF directory = None THEN [status |-> 500]
  ELSE IF IsRegularFile(disk[directory], found)
  THEN [status |-> 200, dir |-> directory, file |-> found]
  ELSE [status |-> 404, body |-> "Not Found"]

\* lines 216-219
ServeSend(t) ==
  /\ At(t, "serve", "send")
  /\ Respond(t,
       (IF req[t].found = <<>>
        THEN [status |-> 404, body |-> "File not found"]
        ELSE SendFromDirectory(VIDEO_DIR, req[t].found))
       @@ [key |-> req[t].key, decoded |-> req[t].decoded,
           found |-> req[t].found, folder |-> req[t].folder,
           usedMap |-> req[t].usedMap, usedOwner |-> req[t].usedOwner])
  /\ UNCHANGED <<VIDEO_DIR, SANITIZED_MAP, HOST_IP, disk, mapOwner>>

(***************************************************************************)
(* GET /playlist.m3u                                                       *)
(***************************************************************************)
CallPlaylist(t) ==
  /\ req[t].pc = "idle"
  /\ NoOtherReader(t)
  /\ Goto(t, [op |-> "playlist", pc |-> "open"])
  /\ UNCHANGED <<VIDEO_DIR, SANITIZED_MAP, HOST_IP, disk, mapOwner>>

\* line 223
PlaylistOpen(t) ==
  /\ At(t, "playlist", "open")
  /\ IF VIDEO_DIR = None
     THEN Respond(t, [status |-> 500])
     ELSE Goto(t, [op |-> "playlist", pc |-> "host", folder |-> VIDEO_DIR])
  /\ UNCHANGED <<VIDEO_DIR, SANITIZED_MAP, HOST_IP, disk, mapOwner>>

\* app.config['HOST_IP'] or get_local_ip()
HostIps == IF HOST_IP = None THEN LocalIPs ELSE {HOST_IP}

\* lines 224-225
PlaylistHost(t) ==
  /\ At(t, "playlist", "host")
  /\ \E ip \in HostIps :
       Goto(t, [req[t] EXCEPT !.pc = "build"] @@ [host_ip |-> ip])
  /\ UNCHANGED <<VIDEO_DIR, SANITIZED_MAP, HOST_IP, disk, mapOwner>>

\* f"http://{host_ip}:{PORT}/files/{encoded}", kept in its parts
StreamUrl(host_ip, key) ==
  [scheme |-> "http://", host |-> host_ip, port |-> PORT,
   prefix |-> "/files/", encoded |-> Quote(key)]

\* PlaylistLines writing the file names instead of their keys
PlaylistLinesOfNames(m, host_ip) ==
  <<"#EXTM3U">> \o [i \in 1..Len(m) |-> StreamUrl(host_ip, m[i][1])]

\* lines 224-230: the lines of the body, each followed by "\n"
PlaylistLines(m, host_ip) ==
  <<"#EXTM3U">> \o [i \in 1..Len(m) |-> StreamUrl(host_ip, m[i][2])]

NEWLINE == 10
COLON == 58

\* "#EXTM3U", "http://" and "/files/"
ExtM3U == <<35, 69, 88, 84, 77, 51, 85>>
HttpScheme == <<104, 116, 116, 112, 58, 47, 47>>
FilesPrefix == <<47, 102, 105, 108, 101, 115, 47>>

\* the characters of an address get_local_ip() returns: "192.168.1.5" or
\* "127.0.0.1"
IpText(ip) ==
  IF ip = "127.0.0.1" THEN <<49, 50, 55, 46, 48, 46, 48, 46, 49>>
  ELSE <<49, 57, 50, 46, 49, 54, 56, 46, 49, 46, 53>>

\* the f-string of line 228 written out
UrlText(u) ==
  HttpScheme \o IpText(u.host) \o <<COLON>> \o DecimalStr(u.port)
    \o FilesPrefix \o u.encoded

RECURSIVE JoinLines(_)
\* "\n".join(texts)
JoinLines(texts) ==
  IF texts = <<>> THEN <<>>
  ELSE IF Len(texts) = 1 THEN texts[1]
  ELSE texts[1] \o <<NEWLINE>> \o JoinLines(Tail(texts))

\* line 230: body = "\n".join(lines) + "\n"
PlaylistBody(lines) ==
  JoinLines([i \in 1..Len(lines) |->
               IF i = 1 THEN ExtM3U ELSE UrlText(lines[i])]) \o <<NEWLINE>>

\* lines 226-231
PlaylistBuild(t) ==
  /\ At(t, "playlist", "build")
  /\ Respond(t, [status |-> 200,
                 lines |-> PlaylistLines(SANITIZED_MAP, req[t].host_ip),
                 body |-> PlaylistBody(
                            PlaylistLines(SANITIZED_MAP, req[t].host_ip)),
                 host_ip |-> req[t].host_ip,
                 folder |-> req[t].folder,
                 usedMap |-> SANITIZED_MAP, usedOwner |-> mapOwner])
  /\ UNCHANGED <<VIDEO_DIR, SANITIZED_MAP, HOST_IP, disk, mapOwner>>

(***************************************************************************)
(* GET /                                                                   *)
(***************************************************************************)
CallRoot(t) ==
  /\ req[t].pc = "idle"
  /\ NoOtherReader(t)
  /\ Goto(t, [op |-> "root", pc |-> "check"])
  /\ UNCHANGED <<VIDEO_DIR, SANITIZED_MAP, HOST_IP, disk, mapOwner>>

\* lines 144-145
RootCheck(t) ==
  /\ At(t, "root", "check")
  /\ IF VIDEO_DIR = None
     THEN Respond(t, [status |-> 200, page |-> "setup"])
     ELSE Goto(t, [op |-> "root", pc |-> "open"])
  /\ UNCHANGED <<VIDEO_DIR, SANITIZED_MAP, HOST_IP, disk, mapOwner>>

\* line 147: VIDEO_DIR is read a second time
RootOpen(t) ==
  /\ At(t, "root", "open")
  /\ IF VIDEO_DIR = None
     THEN Respond(t, [status |-> 500])
     ELSE Goto(t, [op |-> "root", pc |-> "host", folder |-> VIDEO_DIR])
  /\ UNCHANGED <<VIDEO_DIR, SANITIZED_MAP, HOST_IP, disk, mapOwner>>

\* lines 148-149
RootHost(t) ==
  /\ At(t, "root", "host")
  /\ \E ip \in HostIps :
       Goto(t, [req[t] EXCEPT !.pc = "list"] @@ [host_ip |-> ip])
  /\ UNCHANGED <<VIDEO_DIR, SANITIZED_MAP, HOST_IP, disk, mapOwner>>

\* line 150: sorted(folder.iterdir())
RootList(t) ==
  /\ At(t, "root", "list")
  /\ Goto(t, [req[t] EXCEPT !.pc = "item"] @@
             [names |-> SortedSeq(EntryNames(disk[req[t].folder])),
              files |-> <<>>])
  /\ UNCHANGED <<VIDEO_DIR, SANITIZED_MAP, HOST_IP, disk, mapOwner>>

\* lines 150-155: the next entry; a video file gets its URL from the
\* mapping as it is now
RootItemUrl(t) ==
  /\ At(t, "root", "item")
  /\ req[t].names # <<>>
  /\ LET p == Head(req[t].names) IN
       IF IsRegularFile(disk[req[t].folder], p) /\ is_video_file(p)
       THEN Goto(t, [req[t] EXCEPT !.pc = "item_name"] @@
                    [url |-> StreamUrl(req[t].host_ip,
                                       MapGet(SANITIZED_MAP, p, p)),
                     urlOwner |-> mapOwner])
       ELSE Goto(t, [req[t] EXCEPT !.names = Tail(req[t].names)])
  /\ UNCHANGED <<VIDEO_DIR, SANITIZED_MAP, HOST_IP, disk, mapOwner>>

\* lines 156-157: the mapping is read again for the display name
RootItemName(t) ==
  /\ At(t, "root", "item_name")
  /\ LET p == Head(req[t].names) IN
       Goto(t, [op |-> "root", pc |-> "item", folder |-> req[t].folder,
                host_ip |-> req[t].host_ip,
                names |-> Tail(req[t].names),
                files |-> Append(req[t].files,
                                 [actual |-> p,
                                  display_name |-> MapGet(SANITIZED_MAP, p, p),
                                  url |-> req[t].url,
                                  urlOwner |-> req[t].urlOwner,
                                  nameOwner |-> mapOwner])])
  /\ UNCHANGED <<VIDEO_DIR, SANITIZED_MAP, HOST_IP, disk, mapOwner>>

\* lines 158-159
RootRender(t) ==
  /\ At(t, "root", "item")
  /\ req[t].names = <<>>
  /\ Respond(t, [status |-> 200, page |-> "index", files |-> req[t].files,
                 folder |-> req[t].folder])
  /\ UNCHANGED <<VIDEO_DIR, SANITIZED_MAP, HOST_IP, disk, mapOwner>>

(***************************************************************************)
(* The user's file manager: files copied into and removed from the folders *)
(***************************************************************************)
\* "a .MP4" may appear in, and disappear from, the folder "/d2"
LateFiles == {<<"/d2", NameASpace>>}

CreateFile(d, n) ==
  /\ n \notin EntryNames(disk[d])
  /\ disk' = [disk EXCEPT ![d] = @ \cup {File(n)}]
  /\ UNCHANGED <<VIDEO_DIR, SANITIZED_MAP, HOST_IP, req, mapOwner>>

RemoveFile(d, n) ==
  /\ File(n) \in disk[d]
  /\ disk' = [disk EXCEPT ![d] = @ \ {File(n)}]
  /\ UNCHANGED <<VIDEO_DIR, SANITIZED_MAP, HOST_IP, req, mapOwner>>

(***************************************************************************)
(* The threaded server                                                     *)
(***************************************************************************)
Next ==
  \/ \E t \in Threads :
       \/ CallSetFolder(t, FormInputs)
       \/ SetFolderScan(t)
       \/ SetFolderWriteDir(t)
       \/ SetFolderWriteMap(t)
       \/ SetFolderWriteIp(t)
       \/ CallReset(t)
       \/ ResetDir(t)
       \/ ResetMap(t)
       \/ CallServe(t, RequestKeys)
       \/ ServeOpen(t)
       \/ ServeLookup(t)
       \/ ServeFallback(t)
       \/ ServeSend(t)
       \/ CallPlaylist(t)
       \/ PlaylistOpen(t)
       \/ PlaylistHost(t)
       \/ PlaylistBuild(t)
       \/ CallRoot(t)
       \/ RootCheck(t)
       \/ RootOpen(t)
       \/ RootHost(t)
       \/ RootList(t)
       \/ RootItemUrl(t)
       \/ RootItemName(t)
       \/ RootRender(t)
       \/ Return(t)
  \/ \E f \in LateFiles : CreateFile(f[1], f[2]) \/ RemoveFile(f[1], f[2])

Spec == Init /\ [][Next]_vars

(***************************************************************************)
(* Loads and resets, one at a time, of a folder "/d1" of any content       *)
(***************************************************************************)
\* "a", "(", ")", " ", "%20"
StemTokens == { <<97>>, <<40>>, <<41>>, <<32>>, <<37, 50, 48>> }

RECURSIVE Stems(_)
\* the concatenations of at most n tokens
Stems(n) ==
  IF n = 0 THEN {<<>>}
  ELSE Stems(n - 1) \cup {s \o tk : s \in Stems(n - 1), tk \in StemTokens}

\* "a.MP4"
NameUpper == <<97, 46, 77, 80, 52>>

\* stem + ".mkv" for every stem, and the names with another suffix
GeneratedNames ==
  {s \o <<46, 109, 107, 118>> : s \in Stems(MaxStemLen)} \cup {NameUpper, NameTxt}

GeneratedEntries ==
  {File(n) : n \in GeneratedNames} \cup {SubDir(NameSub)}

RECURSIVE SubsetsUpTo(_, _)
\* the subsets of S of at most k elements
SubsetsUpTo(S, k) ==
  IF k = 0 THEN {{}}
  ELSE LET P == SubsetsUpTo(S, k - 1)
       IN P \cup {q \cup {x} : q \in P, x \in S}

Listings == SubsetsUpTo(GeneratedEntries, MaxFiles)

InitDirs ==
  /\ InitRegistry
  /\ \E L \in Listings :
       disk = [d \in Dirs |-> IF d = "/d1" THEN L ELSE {File(NameA)}]

NextDirs ==
  \/ CallSetFolder(1, {<<"/d1">>})
  \/ SetFolderScan(1)
  \/ SetFolderWriteDir(1)
  \/ SetFolderWriteMap(1)
  \/ SetFolderWriteIp(1)
  \/ CallReset(1)
  \/ ResetDir(1)
  \/ ResetMap(1)
  \/ Return(1)

SpecDirs == InitDirs /\ [][NextDirs]_vars

(***************************************************************************)
(* The scan of set_folder statement by statement (lines 163-185).  Its     *)
(* locals (names, sanitized_map, actual, sanitized, key, i) belong to the  *)
(* thread; SetFolderScan above is the same scan run in one step.           *)
(***************************************************************************)
\* lines 163-175: validation, sanitized_map = {}, and the listing that
\* sorted(folder_path.iterdir()) reads
ScanBegin(t) ==
  /\ At(t, "set_folder", "scan")
  /\ LET folder == Strip(req[t].form) IN
       IF folder = <<>>
       THEN Respond(t, [status |-> 302, flash |-> "Folder path is empty."])
       ELSE IF FolderRefused(folder)
       THEN Respond(t, [status |-> 302,
                        flash |-> "Folder does not exist or is not a directory."])
       ELSE Goto(t, [op |-> "set_folder", pc |-> "for",
                     form |-> req[t].form,
                     folder_path |-> folder[1],
                     scanned |-> disk[PathResolve(folder[1])],
                     names |-> SortedSeq(EntryNames(disk[PathResolve(folder[1])])),
                     sanitized_map |-> <<>>])
  /\ UNCHANGED <<VIDEO_DIR, SANITIZED_MAP, HOST_IP, disk, mapOwner>>

\* the locals a Load keeps once its loop is over
ScanResult(r) ==
  [op |-> "set_folder", pc |-> "write_dir", form |-> r.form,
   folder_path |-> r.folder_path, scanned |-> r.scanned,
   sanitized_map |-> r.sanitized_map]

\* the locals of the for loop between two of its iterations
ScanLoop(r, names, m) ==
  [op |-> "set_folder", pc |-> "for", form |-> r.form,
   folder_path |-> r.folder_path, scanned |-> r.scanned,
   names |-> names, sanitized_map |-> m]

\* lines 175-181: the next entry p; p.is_file() asks the file system as it
\* is now; an accepted file enters the while loop with key = sanitized, i = 1
ScanNext(t) ==
  /\ At(t, "set_folder", "for")
  /\ IF req[t].names = <<>>
     THEN Goto(t, ScanResult(req[t]))
     ELSE LET p == Head(req[t].names) IN
       IF IsRegularFile(disk[PathResolve(req[t].folder_path)], p)
          /\ is_video_file(p)
       THEN Goto(t, [op |-> "set_folder", pc |-> "while",
                     form |-> req[t].form,
                     folder_path |-> req[t].folder_path,
                     scanned |-> req[t].scanned,
                     names |-> Tail(req[t].names),
                     sanitized_map |-> req[t].sanitized_map,
                     actual |-> p, sanitized |-> sanitize_visible(p),
                     key |-> sanitize_visible(p), i |-> 1])
       ELSE Goto(t, ScanLoop(req[t], Tail(req[t].names), req[t].sanitized_map))
  /\ UNCHANGED <<VIDEO_DIR, SANITIZED_MAP, HOST_IP, disk, mapOwner>>

\* ScanWhile testing the sanitized name instead of the candidate key
ScanWhileOnBase(t) ==
  /\ At(t, "set_folder", "while")
  /\ IF req[t].sanitized \in MapValues(req[t].sanitized_map)
     THEN Goto(t, [req[t] EXCEPT
                     !.i = req[t].i + 1,
                     !.key = req[t].sanitized \o <<SPACE>>
                               \o DecimalStr(req[t].i + 1)])
     ELSE Goto(t, [req[t] EXCEPT !.pc = "assign"])
  /\ UNCHANGED <<VIDEO_DIR, SANITIZED_MAP, HOST_IP, disk, mapOwner>>

\* lines 182-184: one test of the while loop; a taken key costs one
\* increment of i and gives the next candidate, a free key ends the loop
ScanWhile(t) ==
  /\ At(t, "set_folder", "while")
  /\ IF req[t].key \in MapValues(req[t].sanitized_map)
     THEN Goto(t, [req[t] EXCEPT
                     !.i = req[t].i + 1,
                     !.key = req[t].sanitized \o <<SPACE>>
                               \o DecimalStr(req[t].i + 1)])
     ELSE Goto(t, [req[t] EXCEPT !.pc = "assign"])
  /\ UNCHANGED <<VIDEO_DIR, SANITIZED_MAP, HOST_IP, disk, mapOwner>>

\* ScanAssign binding the file in the published mapping
ScanAssignInPlace(t) ==
  /\ At(t, "set_folder", "assign")
  /\ Goto(t, ScanLoop(req[t], req[t].names,
                      Append(req[t].sanitized_map,
                             <<req[t].actual, req[t].key>>)))
  /\ SANITIZED_MAP' = Append(req[t].sanitized_map, <<req[t].actual, req[t].key>>)
  /\ UNCHANGED <<VIDEO_DIR, HOST_IP, disk, mapOwner>>

\* line 185: sanitized_map[actual] = key, in the local dict
ScanAssign(t) ==
  /\ At(t, "set_folder", "assign")
  /\ Goto(t, ScanLoop(req[t], req[t].names,
                      Append(req[t].sanitized_map,
                             <<req[t].actual, req[t].key>>)))
  /\ UNCHANGED <<VIDEO_DIR, SANITIZED_MAP, HOST_IP, disk, mapOwner>>

(***************************************************************************)
(* One Load after another of a folder "/d1" of any content, the scan run   *)
(* statement by statement                                                  *)
(***************************************************************************)
\* the steps of a request to /set_folder once it is dispatched
LoadStep(t) ==
  \/ ScanBegin(t)
  \/ ScanNext(t)
  \/ ScanWhile(t)
  \/ ScanAssign(t)
  \/ SetFolderWriteDir(t)
  \/ SetFolderWriteMap(t)
  \/ SetFolderWriteIp(t)

\* "a).mkv" and "(a.mkv": with "a(.mkv" and "a.mkv", four names of one
\* sanitized base
NameACloseParen == <<97, 41, 46, 109, 107, 118>>
NameParenA == <<40, 97, 46, 109, 107, 118>>

ScanEntries ==
  {File(NameAParen), File(NameACloseParen), File(NameA), File(NameParenA),
   File(NameUpper), File(NameTxt), SubDir(NameSub)}

InitLoad ==
  /\ InitRegistry
  /\ \E L \in SubsetsUpTo(ScanEntries, MaxFiles) :
       disk = [d \in Dirs |-> IF d = "/d1" THEN L ELSE {File(NameA)}]

NextLoad ==
  \/ CallSetFolder(1, {<<"/d1">>})
  \/ LoadStep(1)
  \/ Return(1)

\* a thread that serves a request keeps running
SpecLoad == InitLoad /\ [][NextLoad]_vars /\ WF_vars(LoadStep(1))

(***************************************************************************)
(* A folder that gets a new file after it was loaded: thread 1 loads and   *)
(* resets, the scan run statement by statement, thread 2 reads             *)
(***************************************************************************)
\* "a.mkv" may appear in, and disappear from, the folder "/d1"
LateListingFiles == {<<"/d1", NameA>>}

InitListing ==
  /\ InitRegistry
  /\ disk = [d \in Dirs |->
               IF d = "/d1"
               THEN {File(NameAParen), File(NameUpper), File(NameTxt)}
               ELSE {File(NamePct), SubDir(NameSub)}]

NextListing ==
  \/ CallSetFolder(1, {<<"/d1">>})
  \/ LoadStep(1)
  \/ CallReset(1)
  \/ ResetDir(1)
  \/ ResetMap(1)
  \/ Return(1)
  \/ CallServe(2, RequestKeys)
  \/ ServeOpen(2)
  \/ ServeLookup(2)
  \/ ServeFallback(2)
  \/ ServeSend(2)
  \/ CallPlaylist(2)
  \/ PlaylistOpen(2)
  \/ PlaylistHost(2)
  \/ PlaylistBuild(2)
  \/ CallRoot(2)
  \/ RootCheck(2)
  \/ RootOpen(2)
  \/ RootHost(2)
  \/ RootList(2)
  \/ RootItemUrl(2)
  \/ RootItemName(2)
  \/ RootRender(2)
  \/ Return(2)
  \/ \E f \in LateListingFiles : CreateFile(f[1], f[2]) \/ RemoveFile(f[1], f[2])

SpecListing == InitListing /\ [][NextListing]_vars

(***************************************************************************)
(* sanitize_visible on every short name                                    *)
(***************************************************************************)
\* the longest name given to the sanitizer
MaxNameLen == 4

\* "a", "(", ")", space, tab, no-break space
NameAlphabet == {97, LPAREN, RPAREN, SPACE, 9, 160}

RECURSIVE NamesUpTo(_)
\* the strings over NameAlphabet of at most n characters
NamesUpTo(n) ==
  IF n = 0 THEN {<<>>}
  ELSE NamesUpTo(n - 1)
         \cup {Append(x, c) : x \in {y \in NamesUpTo(n - 1) : Len(y) = n - 1},
                              c \in NameAlphabet}

InitSanitize ==
  /\ VIDEO_DIR = None
  /\ SANITIZED_MAP = <<>>
  /\ HOST_IP = None
  /\ mapOwner = None
  /\ disk = [d \in Dirs |-> {}]
  /\ \E x \in NamesUpTo(MaxNameLen) :
       req = [t \in Threads |->
                IF t = 1 THEN [op |-> "sanitize", pc |-> "call", name |-> x]
                ELSE Idle]

\* line 178: sanitized = sanitize_visible(actual)
SanitizeName(t) ==
  /\ At(t, "sanitize", "call")
  /\ Goto(t, [req[t] EXCEPT !.pc = "again"]
             @@ [once |-> sanitize_visible(req[t].name)])
  /\ UNCHANGED <<VIDEO_DIR, SANITIZED_MAP, HOST_IP, disk, mapOwner>>

\* the sanitizer applied to its own result
SanitizeAgain(t) ==
  /\ At(t, "sanitize", "again")
  /\ Respond(t, [name |-> req[t].name, once |-> req[t].once,
                 twice |-> sanitize_visible(req[t].once)])
  /\ UNCHANGED <<VIDEO_DIR, SANITIZED_MAP, HOST_IP, disk, mapOwner>>

NextSanitize == SanitizeName(1) \/ SanitizeAgain(1)

SpecSanitize == InitSanitize /\ [][NextSanitize]_vars

(***************************************************************************)
(* Properties                                                              *)
(***************************************************************************)
\* the thread t has built its sanitized_map and not yet returned
HasBuilt(t) ==
  /\ req[t].op = "set_folder"
  /\ req[t].pc \in {"write_dir", "write_map", "write_ip"}

\* the names of the regular files of a listing whose extension, lower-cased,
\* is in the allow-list
AcceptedNames(entries) ==
  {e.name : e \in {x \in entries :
      x.kind = "file" /\ Lower(PathSuffix(x.name)) \in VIDEO_EXTS}}

\* m binds every name of names to one key, and no key twice
IsBijection(m, names) ==
  /\ MapKeys(m) = names
  /\ Len(m) = Cardinality(names)
  /\ Cardinality(MapValues(m)) = Len(m)

\* C1: the mapping a successful Load builds, and the one it publishes, is a
\* bijection between the accepted files of the scanned directory (regular
\* files with an allow-listed extension, case-insensitive) and their keys:
\* every accepted file has exactly one key, no other name has one, and no
\* two names share a key.
C1_LoadIsBijection ==
  /\ \A t \in Threads :
       HasBuilt(t) =>
         IsBijection(req[t].sanitized_map, AcceptedNames(req[t].scanned))
  /\ mapOwner # None =>
       IsBijection(SANITIZED_MAP, AcceptedNames(disk[mapOwner]))

\* a published mapping of two files with the same sanitized name, built
\* from a folder that also holds an entry Load does not accept
C1_Witness ==
  /\ mapOwner = "/d1"
  /\ Len(SANITIZED_MAP) = 2
  /\ sanitize_visible(SANITIZED_MAP[1][1]) = sanitize_visible(SANITIZED_MAP[2][1])
  /\ Cardinality(disk["/d1"]) = 3

\* the number of bindings up to the j-th whose file has the sanitized name
\* of the j-th
RankInBase(m, j) ==
  Cardinality({i \in 1..j :
     sanitize_visible(m[i][1]) = sanitize_visible(m[j][1])})

\* C7: the files of one Load are bound in lexicographic order of their
\* names; the first file with the sanitized base B gets the key B, and the
\* k-th (k >= 2) gets B, one space, and k in decimal.
C7_SuffixInScanOrder ==
  \A t \in Threads :
    HasBuilt(t) =>
      LET m == req[t].sanitized_map IN
        /\ \A i \in 1..(Len(m) - 1) : StrLess(m[i][1], m[i + 1][1])
        /\ \A j \in 1..Len(m) :
             LET B == sanitize_visible(m[j][1])
                 k == RankInBase(m, j)
             IN m[j][2] = IF k = 1 THEN B ELSE B \o <<SPACE>> \o DecimalStr(k)

\* a Load has bound three files with the same sanitized base
C7_Witness ==
  \E t \in Threads :
    /\ HasBuilt(t)
    /\ Len(req[t].sanitized_map) = 3
    /\ RankInBase(req[t].sanitized_map, 3) = 3

\* the thread t has answered a successful Load
LoadDone(t) ==
  /\ req[t].op = "set_folder"
  /\ req[t].pc = "done"
  /\ req[t].resp.flash = ""

\* the listing a Load of thread t scanned and the mapping it built from it
LoadOf(t) ==
  IF HasBuilt(t)
  THEN [scanned |-> req[t].scanned, built |-> req[t].sanitized_map]
  ELSE [scanned |-> req[t].resp.scanned, built |-> req[t].resp.built]

\* the thread t has answered a request to /files/<key> that got past line 203
ServeDone(t) ==
  /\ req[t].op = "serve"
  /\ req[t].pc = "done"
  /\ "usedMap" \in DOMAIN req[t].resp

\* C2: a client that percent-encodes a key of the mapping the lookup uses,
\* and whose URL the server percent-decodes once before it calls the
\* handler, is answered with the file bound to that key.
C2_RoundTrip ==
  \A t \in Threads :
    ServeDone(t) =>
      \A i \in 1..Len(req[t].resp.usedMap) :
        req[t].resp.key = Unquote(Quote(req[t].resp.usedMap[i][2]))
          => req[t].resp.found = req[t].resp.usedMap[i][1]

\* C3: the directory and the mapping one reader request uses belong to the
\* same snapshot, and a hit streams from the directory of that snapshot.
C3_ReaderSeesOneSnapshot ==
  \A t \in Threads :
    /\ (req[t].op = "serve" /\ req[t].pc \in {"fallback", "send"})
         => req[t].folder = req[t].usedOwner
    /\ ServeDone(t) =>
         /\ req[t].resp.folder = req[t].resp.usedOwner
         /\ req[t].resp.status = 200 => req[t].resp.dir = req[t].resp.usedOwner
    /\ (req[t].op = "playlist" /\ req[t].pc = "done" /\ req[t].resp.status = 200)
         => req[t].resp.folder = req[t].resp.usedOwner
    /\ (req[t].op = "root" /\ req[t].pc = "done" /\ req[t].resp.status = 200
        /\ req[t].resp.page = "index")
         => \A i \in 1..Len(req[t].resp.files) :
              /\ req[t].resp.files[i].urlOwner = req[t].resp.folder
              /\ req[t].resp.files[i].nameOwner = req[t].resp.folder

\* the form value names no directory: it is blank, or its path does not
\* exist or is no directory
InvalidForm(form) ==
  \/ Strip(form) = <<>>
  \/ ~ (PathExists(Strip(form)[1]) /\ PathIsDir(Strip(form)[1]))

\* C4: a Load of an empty, nonexistent or non-directory path answers with
\* an error message and changes neither the directory, the mapping nor the
\* host address.
C4_FailedLoadChangesNothing ==
  [][\A t \in Threads :
       (At(t, "set_folder", "scan") /\ InvalidForm(req[t].form)
        /\ req'[t] # req[t])
         => /\ registry' = registry
            /\ req'[t].pc = "done"
            /\ req'[t].resp.flash # ""]_vars

\* a Load was refused while a folder with files was loaded
C4_Witness ==
  \E t \in Threads :
    /\ req[t].op = "set_folder"
    /\ req[t].pc = "done"
    /\ req[t].resp.flash # ""
    /\ VIDEO_DIR = "/d1"
    /\ Len(SANITIZED_MAP) = 2

\* C5: a request for a key that was never assigned and names no file on
\* disk is answered 404, in every state of the registry.
C5_MissIs404 ==
  \A t \in Threads :
    (req[t].op = "serve" /\ req[t].pc = "done" /\ req[t].resp.key = MissingKey)
      => req[t].resp.status = 404

\* C6: once no request is in flight, the directory and the mapping come
\* from the same Load, or the directory is absent and the mapping is the
\* empty one of a Reset.
C6_WritesSerialized ==
  (\A t \in Threads : req[t].pc \in {"idle", "done"}) => VIDEO_DIR = mapOwner

\* C8: two Loads that scanned the same listing built the same mapping,
\* whatever the registry held when each of them ran.
C8_LoadDependsOnListingOnly ==
  \A t1, t2 \in Threads :
    ((HasBuilt(t1) \/ LoadDone(t1)) /\ (HasBuilt(t2) \/ LoadDone(t2))
     /\ LoadOf(t1).scanned = LoadOf(t2).scanned)
      => LoadOf(t1).built = LoadOf(t2).built

\* one Load of "/d1" has returned, and another has scanned the same
\* listing while the snapshot of "/d2" was the active one
C8_Witness ==
  \E t1, t2 \in Threads :
    /\ LoadDone(t1)
    /\ Len(req[t1].resp.built) = 2
    /\ At(t2, "set_folder", "write_dir")
    /\ req[t2].scanned = req[t1].resp.scanned
    /\ VIDEO_DIR = "/d2"
    /\ mapOwner = "/d2"
    /\ SANITIZED_MAP # <<>>

\* C9: the step that completes a successful Load leaves the folder loaded
\* with exactly the mapping that Load built, the step that completes a
\* Reset leaves no folder and an empty mapping, and no step of any other
\* request changes the directory or the mapping.
C9_Lifecycle ==
  [][\A t \in Threads :
       /\ (At(t, "set_folder", "write_ip") /\ req'[t].pc = "done")
            => /\ VIDEO_DIR' = PathResolve(req[t].folder_path)
               /\ SANITIZED_MAP' = req[t].sanitized_map
       /\ (At(t, "reset", "clear_map") /\ req'[t].pc = "done")
            => /\ VIDEO_DIR' = None
               /\ SANITIZED_MAP' = <<>>
       /\ (req[t].op \notin {"set_folder", "reset"} /\ req'[t] # req[t])
            => UNCHANGED <<VIDEO_DIR, SANITIZED_MAP>>]_vars

\* C10: no step of a request to /files/<key>, /playlist.m3u or / changes
\* the directory or the mapping, and the mapping changes only by being
\* replaced with the complete mapping of a Load or with the empty one of a
\* Reset.
C10_ReadersChangeNothing ==
  [][/\ \A t \in Threads :
          (req[t].op \in {"serve", "playlist", "root"} /\ req'[t] # req[t])
            => UNCHANGED <<VIDEO_DIR, SANITIZED_MAP>>
     /\ SANITIZED_MAP' # SANITIZED_MAP =>
          \E t \in Threads :
            \/ /\ At(t, "set_folder", "write_map")
               /\ SANITIZED_MAP' = req[t].sanitized_map
            \/ /\ At(t, "reset", "clear_map")
               /\ SANITIZED_MAP' = <<>>]_vars

\* a request was served by the fallback of line 212, the mapping having
\* missed, while a folder with files was loaded
C10_Witness ==
  \E t \in Threads :
    /\ ServeDone(t)
    /\ req[t].resp.status = 200
    /\ LookupKey(req[t].resp.usedMap, req[t].resp.decoded) = <<>>
    /\ VIDEO_DIR # None
    /\ SANITIZED_MAP # <<>>

\* the thread t has answered a request to /playlist.m3u with a document
PlaylistDone(t) ==
  /\ req[t].op = "playlist"
  /\ req[t].pc = "done"
  /\ req[t].resp.status = 200

RECURSIVE PlaylistDocument(_, _)
\* one line "http://{host}:8000/files/{percent-encoded key}" and a newline
\* for each binding of m, in order
PlaylistDocument(m, host) ==
  IF m = <<>> THEN <<>>
  ELSE HttpScheme \o IpText(host) \o <<COLON>> \o <<56, 48, 48, 48>>
         \o FilesPrefix \o Quote(m[1][2]) \o <<NEWLINE>>
         \o PlaylistDocument(Tail(m), host)

\* the number of newline characters of a text
CountLines(text) == Cardinality({i \in 1..Len(text) : text[i] = NEWLINE})

\* C11: with a folder loaded, the playlist is the line "#EXTM3U" followed by
\* one line http://{host}:{port}/files/{percent-encoded key} per binding of
\* the mapping, in its stored order; it ends with a newline and has as many
\* URL lines as the mapping has bindings.
C11_PlaylistDocument ==
  \A t \in Threads :
    PlaylistDone(t) =>
      LET r == req[t].resp IN
        /\ r.body = ExtM3U \o <<NEWLINE>> \o PlaylistDocument(r.usedMap, r.host_ip)
        /\ r.body[Len(r.body)] = NEWLINE
        /\ CountLines(r.body) = Len(r.usedMap) + 1

\* a playlist of two bindings, one of them with a key that percent-encoding
\* changes and that differs from its file name
C11_Witness ==
  \E t \in Threads :
    /\ PlaylistDone(t)
    /\ Len(req[t].resp.usedMap) = 2
    /\ \E i \in 1..2 :
         /\ Quote(req[t].resp.usedMap[i][2]) # req[t].resp.usedMap[i][2]
         /\ req[t].resp.usedMap[i][1] # req[t].resp.usedMap[i][2]

\* the thread t runs the scan of a Load
Scanning(t) ==
  /\ req[t].op = "set_folder"
  /\ req[t].pc \in {"scan", "for", "while", "assign"}

\* the thread t is in the collision loop of an accepted file, or has just
\* left it
InCollisionLoop(t) ==
  /\ req[t].op = "set_folder"
  /\ req[t].pc \in {"while", "assign"}

\* in the collision loop the counter was incremented at most as often as
\* there are keys assigned in this pass, the candidate is the sanitized name
\* or sanitized name, space, counter, and the key the loop exits with is not
\* assigned; the mapping of a finished scan is the one BuildSanitizedMap
\* computes
CollisionLoopBounded ==
  \A t \in Threads :
    /\ InCollisionLoop(t) =>
         /\ req[t].i - 1 <= Len(req[t].sanitized_map)
         /\ req[t].key = Candidate(req[t].sanitized, req[t].i)
         /\ req[t].pc = "assign" =>
              req[t].key \notin MapValues(req[t].sanitized_map)
    /\ HasBuilt(t) =>
         req[t].sanitized_map = BuildSanitizedMap(req[t].scanned)

\* C16: the collision loop of a Load ends for every accepted file, after at
\* most as many increments of the counter as keys are already assigned in
\* this pass and with a key that is not yet assigned; every Load that scans
\* comes to an end.
C16_CollisionLoopTerminates ==
  /\ []CollisionLoopBounded
  /\ \A t \in Threads : Scanning(t) ~> (req[t].op = "set_folder" /\ ~ Scanning(t))

\* the loop has left with the counter at 3: two candidates were taken
C16_Witness ==
  \E t \in Threads :
    /\ At(t, "set_folder", "assign")
    /\ req[t].i = 3
    /\ Len(req[t].sanitized_map) = 2

\* the thread t has sanitized a name
Sanitized(t) ==
  /\ req[t].op = "sanitize"
  /\ req[t].pc \in {"again", "done"}

\* the name the thread t sanitized and the result
SanitizedName(t) == IF req[t].pc = "done" THEN req[t].resp.name ELSE req[t].name

SanitizedOnce(t) == IF req[t].pc = "done" THEN req[t].resp.once ELSE req[t].once

\* C12: the sanitizer applied to its own result gives that result again.
C12_SanitizeIdempotent ==
  \A t \in Threads :
    (req[t].op = "sanitize" /\ req[t].pc = "done")
      => req[t].resp.twice = req[t].resp.once

\* a name that the sanitizer changed, by removing a parenthesis and by
\* collapsing whitespace, was sanitized twice
C12_Witness ==
  \E t \in Threads :
    /\ req[t].op = "sanitize"
    /\ req[t].pc = "done"
    /\ req[t].resp.name = <<LPAREN, SPACE, 97>>
    /\ req[t].resp.once = <<97>>

\* C13: the sanitized name has no parenthesis, no whitespace at either end
\* and no two whitespace characters in a row, and its other characters are
\* the characters of the name that are neither parenthesis nor whitespace,
\* in their order.
C13_SanitizeShape ==
  \A t \in Threads :
    Sanitized(t) =>
      LET x == SanitizedName(t)
          out == SanitizedOnce(t)
      IN /\ \A i \in 1..Len(out) : out[i] \notin {LPAREN, RPAREN}
         /\ out # <<>> =>
              (out[1] \notin Whitespace /\ out[Len(out)] \notin Whitespace)
         /\ \A i \in 1..(Len(out) - 1) :
              ~ (out[i] \in Whitespace /\ out[i + 1] \in Whitespace)
         /\ SeqFilter(out, Whitespace)
              = SeqFilter(x, Whitespace \cup {LPAREN, RPAREN})

\* "a", tab, "(", "a": the tab and the space the parenthesis leaves behind
\* become one space
C13_Witness ==
  \E t \in Threads :
    /\ Sanitized(t)
    /\ SanitizedName(t) = <<97, 9, LPAREN, 97>>
    /\ SanitizedOnce(t) = <<97, SPACE, 97>>

\* C14: when the request's directory and mapping are the active ones, a
\* decoded key that is no key of the mapping but names an entry of the
\* directory is resolved to that entry by the fallback, and a decoded key
\* that is a key of the mapping is resolved to the file bound to it, whatever
\* the directory holds.
C14_FallbackAfterMiss ==
  [][\A t \in Threads :
       (/\ At(t, "serve", "fallback")
        /\ req'[t] # req[t]
        /\ req[t].folder = VIDEO_DIR
        /\ req[t].usedMap = SANITIZED_MAP)
         => /\ (req[t].decoded \notin MapValues(SANITIZED_MAP)
                /\ req[t].decoded \in EntryNames(disk[VIDEO_DIR]))
                 => req'[t].found = req[t].decoded
            /\ req[t].decoded \in MapValues(SANITIZED_MAP)
                 => /\ req'[t].found = req[t].found
                    /\ <<req'[t].found, req[t].decoded>> \in Range(SANITIZED_MAP)]_vars

\* a file the active mapping does not bind (it was copied into the folder
\* after the Load, or it is no video) was served by the fallback
C14_Witness ==
  \E t \in Threads :
    /\ ServeDone(t)
    /\ req[t].resp.status = 200
    /\ req[t].resp.usedMap = SANITIZED_MAP
    /\ req[t].resp.folder = VIDEO_DIR
    /\ req[t].resp.decoded \notin MapValues(SANITIZED_MAP)
    /\ req[t].resp.found = req[t].resp.decoded
    /\ req[t].resp.found \notin MapKeys(SANITIZED_MAP)
    /\ SANITIZED_MAP # <<>>

\* the listings a directory of the model can show: its entries with or
\* without the files that come and go
PossibleListings(d) ==
  LET late == {File(f[2]) : f \in {g \in LateListingFiles : g[1] = d}}
  IN {(disk[d] \ late) \cup S : S \in SUBSET late}

\* the mapping of a whole listing of some directory, or the empty mapping
IsCompleteMap(m) ==
  \/ m = <<>>
  \/ \E d \in Dirs : \E L \in PossibleListings(d) : m = BuildSanitizedMap(L)

\* C15: the published mapping, and every mapping a reader has taken, is at
\* every moment, also while a Load scans, the whole mapping of a listing or
\* the empty mapping.
C15_NoPartialMapping ==
  /\ IsCompleteMap(SANITIZED_MAP)
  /\ \A t \in Threads :
       /\ (req[t].op \in {"serve", "playlist"} /\ "usedMap" \in DOMAIN req[t])
            => IsCompleteMap(req[t].usedMap)
       /\ (req[t].op \in {"serve", "playlist"} /\ req[t].pc = "done"
           /\ "usedMap" \in DOMAIN req[t].resp)
            => IsCompleteMap(req[t].resp.usedMap)

\* a Load has bound one of the two files of its folder, the mapping of an
\* earlier Load is published, and a reader has taken that mapping
C15_Witness ==
  \E t, u \in Threads :
    /\ At(t, "set_folder", "for")
    /\ Len(req[t].sanitized_map) = 1
    /\ Len(SANITIZED_MAP) = 2
    /\ At(u, "serve", "fallback")
    /\ req[u].usedMap = SANITIZED_MAP

\* C17: with no folder loaded and an empty mapping, a request for the
\* playlist does not fail: it is answered with the document "#EXTM3U" and a
\* newline.
C17_EmptyPlaylist ==
  [][\A t \in Threads :
       (/\ At(t, "playlist", "open")
        /\ req'[t] # req[t]
        /\ VIDEO_DIR = None
        /\ SANITIZED_MAP = <<>>)
         => (req'[t].pc = "done" =>
               /\ req'[t].resp.status = 200
               /\ req'[t].resp.body = ExtM3U \o <<NEWLINE>>)]_vars

\* what a request for key is resolved to while the registry holds the
\* mapping m and the folder the listing entries (lines 202-215)
Resolve(m, entries, key) ==
  LET decoded == Unquote(key)
      hit == LookupKey(m, decoded)
  IN IF hit # <<>> THEN hit ELSE FallbackName(entries, decoded)

\* the thread t has answered a listing that is up to date: no Load or Reset
\* is running, and the listing shows the video files the active folder
\* holds now with the URLs the active mapping gives them
ListingCurrent(t) ==
  /\ req[t].op = "root"
  /\ req[t].pc = "done"
  /\ req[t].resp.status = 200
  /\ req[t].resp.page = "index"
  /\ VIDEO_DIR # None
  /\ req[t].resp.folder = VIDEO_DIR
  /\ mapOwner = VIDEO_DIR
  /\ \A u \in Threads :
       req[u].op \in {"set_folder", "reset"} => req[u].pc = "done"
  /\ {req[t].resp.files[i].actual : i \in 1..Len(req[t].resp.files)}
       = AcceptedNames(disk[VIDEO_DIR])
  /\ \A i \in 1..Len(req[t].resp.files) :
       req[t].resp.files[i].url.encoded
         = Quote(MapGet(SANITIZED_MAP, req[t].resp.files[i].actual,
                        req[t].resp.files[i].actual))

\* C18: the URL a listing shows for a video file of the folder, requested
\* by a client (the server percent-decodes the path once before the handler
\* runs), is resolved to that file, and no two files of the listing have the
\* same URL.
C18_ListingResolves ==
  \A t \in Threads :
    ListingCurrent(t) =>
      LET files == req[t].resp.files IN
        /\ \A i \in 1..Len(files) :
             Resolve(SANITIZED_MAP, disk[VIDEO_DIR], Unquote(files[i].url.encoded))
               = files[i].actual
        /\ \A i, j \in 1..Len(files) :
             i # j => files[i].url.encoded # files[j].url.encoded

====
